---- MODULE Spec2Model ----
(***************************************************************************)
(* fiberzerolog: the configuration of the request-logging middleware       *)
(* (config.go: Config, Config.loggerCtx, Config.logger, ConfigDefault,     *)
(* configDefault) and the request pipeline that uses it.                   *)
(*                                                                         *)
(* Go values are modelled as follows.                                      *)
(*   - a slice is a record [isNil, elems]: Go tells a nil slice from a     *)
(*     non-nil empty one (cfg.Fields == nil), and so does the model;       *)
(*   - a func or pointer option is Nil or the name of the value;           *)
(*   - a zerolog.Logger / zerolog.Context is [name, context], context      *)
(*     being the sequence of <<key, value>> pairs attached so far          *)
(*     (zerolog appends every pair to a buffer, it never deduplicates);    *)
(*   - []byte is a sequence of byte values.                                *)
(***************************************************************************)
EXTENDS Integers, Sequences, FiniteSets, TLC

VARIABLES
    ConfigDefault,    \* the package variable ConfigDefault
    loggers,          \* the zerolog.Logger objects *zerolog.Logger values point to
    config,           \* the variadic argument of configDefault / New: 0 or 1 Config
    cfg,              \* the resolved Config the middleware closes over
    fc,               \* the *fiber.Ctx of the request being handled
    pc,               \* position of the request in the pipeline
    skipped,          \* the skip decision taken for this request
    chainErr,         \* the error the downstream handler returned
    latency,          \* the measured duration of the downstream handler
    handlerCalls,     \* invocations of the downstream handler for this request
    getLoggerCalls,   \* invocations of cfg.GetLogger for this request
    getResBodyCalls,  \* invocations of cfg.GetResBody for this request
    emitted,          \* records written to the logging sink for this request
    ret,              \* what the middleware returned to its caller
    zl                \* the zerolog.Logger Config.logger returned

vars == <<ConfigDefault, loggers, config, cfg, fc, pc, skipped, chainErr, latency,
          handlerCalls, getLoggerCalls, getResBodyCalls, emitted, ret, zl>>

-----------------------------------------------------------------------------
(* Bounds of the model *)

\* longest Messages / Levels list a caller supplies
MaxListLen == 3

\* longest Fields list a caller supplies to Config.logger
MaxFields == 2

-----------------------------------------------------------------------------
(* Field identifiers, config.go:11-34 *)

FieldReferer == "referer"
FieldProtocol == "protocol"
FieldPID == "pid"
FieldPort == "port"
FieldIP == "ip"
FieldIPs == "ips"
FieldHost == "host"
FieldPath == "path"
FieldURL == "url"
FieldUserAgent == "ua"
FieldLatency == "latency"
FieldStatus == "status"
FieldResBody == "resBody"
FieldQueryParams == "queryParams"
FieldBody == "body"
FieldBytesReceived == "bytesReceived"
FieldBytesSent == "bytesSent"
FieldRoute == "route"
FieldMethod == "method"
FieldRequestID == "requestId"
FieldError == "error"
FieldReqHeaders == "reqHeaders"

KnownFields ==
    {FieldReferer, FieldProtocol, FieldPID, FieldPort, FieldIP, FieldIPs, FieldHost,
     FieldPath, FieldURL, FieldUserAgent, FieldLatency, FieldStatus, FieldResBody,
     FieldQueryParams, FieldBody, FieldBytesReceived, FieldBytesSent, FieldRoute,
     FieldMethod, FieldRequestID, FieldError, FieldReqHeaders}

\* a tag no case of the switch in Config.logger matches
UnknownField == "traceId"

-----------------------------------------------------------------------------
(* Go values *)

Nil == "nil"

NilSlice == [isNil |-> TRUE, elems |-> <<>>]

Slice(s) == [isNil |-> FALSE, elems |-> s]

\* zerolog.Level values
ErrorLevel == 3
WarnLevel == 2
InfoLevel == 1
DebugLevel == 0
FatalLevel == 4
PanicLevel == 5

\* the zero value of Config: every option unset
ZeroConfig ==
    [Next |-> Nil, SkipBody |-> Nil, SkipResBody |-> Nil, GetResBody |-> Nil,
     SkipURIs |-> NilSlice, Logger |-> Nil, GetLogger |-> Nil,
     Fields |-> NilSlice, Messages |-> NilSlice, Levels |-> NilSlice]

\* var logger = zerolog.New(os.Stderr).With().Timestamp().Logger(), and a
\* logger object of the caller's
LoggersInit ==
    [logger |-> [name |-> "logger", context |-> << <<"time", "now">> >>],
     userLogger |-> [name |-> "userLogger", context |-> << <<"app", "demo">> >>]]

\* var ConfigDefault = Config{...}
ConfigDefaultInit ==
    [ZeroConfig EXCEPT
        !.Next = Nil,
        !.Logger = "logger",
        !.Fields = Slice(<<FieldLatency, FieldStatus, FieldMethod, FieldURL, FieldError>>),
        !.Messages = Slice(<<"Server error", "Client error", "Success">>),
        !.Levels = Slice(<<ErrorLevel, WarnLevel, InfoLevel>>)]

-----------------------------------------------------------------------------
(* configDefault, config.go:190-221 *)

\* a slip: Fields tested with len(cfg.Fields) == 0 instead of cfg.Fields == nil
configDefault_lenCheck(args) ==
    IF Len(args) < 1 THEN ConfigDefault
    ELSE LET c0 == args[1]
             c1 == IF c0.Next = Nil THEN [c0 EXCEPT !.Next = ConfigDefault.Next] ELSE c0
             c2 == IF c1.Logger = Nil THEN [c1 EXCEPT !.Logger = ConfigDefault.Logger] ELSE c1
             c3 == IF Len(c2.Fields.elems) = 0
                   THEN [c2 EXCEPT !.Fields = ConfigDefault.Fields] ELSE c2
             c4 == IF c3.Messages.isNil
                   THEN [c3 EXCEPT !.Messages = ConfigDefault.Messages] ELSE c3
             c5 == IF c4.Levels.isNil
                   THEN [c4 EXCEPT !.Levels = ConfigDefault.Levels] ELSE c4
         IN  c5

\* a slip: the caller's options overwritten by the defaults without the nil test
configDefault_overwrite(args) ==
    IF Len(args) < 1 THEN ConfigDefault
    ELSE [args[1] EXCEPT !.Next = ConfigDefault.Next,
                         !.Logger = ConfigDefault.Logger,
                         !.Messages = ConfigDefault.Messages,
                         !.Levels = ConfigDefault.Levels,
                         !.Fields = IF @.isNil THEN ConfigDefault.Fields ELSE @]

configDefault(args) ==
    IF Len(args) < 1 THEN ConfigDefault
    ELSE LET c0 == args[1]
             c1 == IF c0.Next = Nil THEN [c0 EXCEPT !.Next = ConfigDefault.Next] ELSE c0
             c2 == IF c1.Logger = Nil THEN [c1 EXCEPT !.Logger = ConfigDefault.Logger] ELSE c1
             c3 == IF c2.Fields.isNil
                   THEN [c2 EXCEPT !.Fields = ConfigDefault.Fields] ELSE c2
             c4 == IF c3.Messages.isNil
                   THEN [c3 EXCEPT !.Messages = ConfigDefault.Messages] ELSE c3
             c5 == IF c4.Levels.isNil
                   THEN [c4 EXCEPT !.Levels = ConfigDefault.Levels] ELSE c4
         IN  c5

-----------------------------------------------------------------------------
(* The *fiber.Ctx accessors Config.logger reads *)

HeaderReferer == "Referer"
HeaderUserAgent == "User-Agent"
HeaderXForwardedFor == "X-Forwarded-For"
HeaderXRequestID == "X-Request-Id"

\* os.Getpid(): one value for the whole process
Pid == 4242

RECURSIVE HeaderLookup(_, _, _)
HeaderLookup(headers, key, i) ==
    IF i > Len(headers) THEN ""
    ELSE IF headers[i][1] = key THEN headers[i][2]
    ELSE HeaderLookup(headers, key, i + 1)

\* fc.Get(key): the request header, "" when the request has none
Get(ctx, key) == HeaderLookup(ctx.ReqHeaders, key, 1)

\* fc.GetRespHeader(key): the response header, "" when the response has none
GetRespHeader(ctx, key) == HeaderLookup(ctx.RespHeaders, key, 1)

\* a request context: what the accessors and the caller's callbacks return for it
MkCtx(path, status, resBody, nextR, skipBodyR, skipResBodyR) ==
    [Path |-> path,
     OriginalURL |-> path,
     Method |-> "GET",
     Protocol |-> "http",
     Port |-> "52100",
     IP |-> "10.0.0.7",
     Hostname |-> "example.com",
     RoutePath |-> "/:name",
     QueryArgs |-> "a=1&b=2",
     ReqHeaders |-> << <<"Host", "example.com">>, <<HeaderUserAgent, "curl">> >>,
     RespHeaders |-> << <<HeaderXRequestID, "r-17">> >>,
     Body |-> <<104, 105>>,
     RequestBody |-> <<104, 105>>,
     ResponseBody |-> resBody,
     StatusCode |-> status,
     nextResult |-> nextR,
     skipBodyResult |-> skipBodyR,
     skipResBodyResult |-> skipResBodyR,
     getResBodyResult |-> <<114, 97, 119>>,
     getLoggerResult |-> [name |-> "perRequest", context |-> << <<"trace", path>> >>]]

-----------------------------------------------------------------------------
(* zerolog.Context: Str, Int, Dur, Bytes, Stringer and Err append one pair *)

Attach(zc, key, value) == [zc EXCEPT !.context = Append(@, <<key, value>>)]

\* zerolog.ErrorFieldName
ErrorFieldName == "error"

\* Logger.With(): a Context over a copy of the logger's context buffer
With(l) == [name |-> l.name, context |-> l.context]

RECURSIVE VisitAll(_, _, _)
\* fc.Request().Header.VisitAll: one Bytes(key, value) per request header
VisitAll(zc, headers, i) ==
    IF i > Len(headers) THEN zc
    ELSE VisitAll(Attach(zc, headers[i][1], headers[i][2]), headers, i + 1)

-----------------------------------------------------------------------------
(* Config.loggerCtx, config.go:103-109 *)

\* a slip: the static Logger preferred over the factory
loggerCtx_staticFirst(c, ctx) ==
    IF c.Logger # Nil THEN With(loggers[c.Logger])
    ELSE With(ctx.getLoggerResult)

loggerCtx(c, ctx) ==
    IF c.GetLogger # Nil THEN With(ctx.getLoggerResult)
    ELSE With(loggers[c.Logger])

\* the calls of c.GetLogger one loggerCtx makes
loggerCtxCalls(c) == IF c.GetLogger # Nil THEN 1 ELSE 0

-----------------------------------------------------------------------------
(* Config.logger, config.go:111-176 *)

\* a slip: the error attached whether or not the handler failed
errorCase_always(zc, err) == Attach(zc, ErrorFieldName, err)

\* case FieldError
errorCase(zc, err) == IF err # Nil THEN Attach(zc, ErrorFieldName, err) ELSE zc

\* a slip: the raw response body logged even when an override is configured
resBodyCase_raw(c, zc, ctx) ==
    IF c.SkipResBody = Nil \/ ~ctx.skipResBodyResult
    THEN Attach(zc, FieldResBody, ctx.ResponseBody)
    ELSE zc

\* case FieldResBody
resBodyCase(c, zc, ctx) ==
    IF c.SkipResBody = Nil \/ ~ctx.skipResBodyResult
    THEN IF c.GetResBody = Nil
         THEN Attach(zc, FieldResBody, ctx.ResponseBody)
         ELSE Attach(zc, FieldResBody, ctx.getResBodyResult)
    ELSE zc

\* a slip: the skip predicate of the request body ignored
bodyCase_noSkip(c, zc, ctx) == Attach(zc, FieldBody, ctx.Body)

\* case FieldBody
bodyCase(c, zc, ctx) ==
    IF c.SkipBody = Nil \/ ~ctx.skipBodyResult
    THEN Attach(zc, FieldBody, ctx.Body)
    ELSE zc

\* one iteration of the loop over c.Fields: the switch on the field tag
fieldCase(c, zc, field, ctx, lat, err) ==
    CASE field = FieldReferer -> Attach(zc, FieldReferer, Get(ctx, HeaderReferer))
      [] field = FieldProtocol -> Attach(zc, FieldProtocol, ctx.Protocol)
      [] field = FieldPID -> Attach(zc, FieldPID, Pid)
      [] field = FieldPort -> Attach(zc, FieldPort, ctx.Port)
      [] field = FieldIP -> Attach(zc, FieldIP, ctx.IP)
      [] field = FieldIPs -> Attach(zc, FieldIPs, Get(ctx, HeaderXForwardedFor))
      [] field = FieldHost -> Attach(zc, FieldHost, ctx.Hostname)
      [] field = FieldPath -> Attach(zc, FieldPath, ctx.Path)
      [] field = FieldURL -> Attach(zc, FieldURL, ctx.OriginalURL)
      [] field = FieldUserAgent -> Attach(zc, FieldUserAgent, Get(ctx, HeaderUserAgent))
      [] field = FieldLatency -> Attach(zc, FieldLatency, lat)
      [] field = FieldStatus -> Attach(zc, FieldStatus, ctx.StatusCode)
      [] field = FieldResBody -> resBodyCase(c, zc, ctx)
      [] field = FieldQueryParams -> Attach(zc, FieldQueryParams, ctx.QueryArgs)
      [] field = FieldBody -> bodyCase(c, zc, ctx)
      [] field = FieldBytesReceived -> Attach(zc, FieldBytesReceived, Len(ctx.RequestBody))
      [] field = FieldBytesSent -> Attach(zc, FieldBytesSent, Len(ctx.ResponseBody))
      [] field = FieldRoute -> Attach(zc, FieldRoute, ctx.RoutePath)
      [] field = FieldMethod -> Attach(zc, FieldMethod, ctx.Method)
      [] field = FieldRequestID ->
            Attach(zc, FieldRequestID, GetRespHeader(ctx, HeaderXRequestID))
      [] field = FieldError -> errorCase(zc, err)
      [] field = FieldReqHeaders -> VisitAll(zc, ctx.ReqHeaders, 1)
      [] OTHER -> zc

RECURSIVE fieldLoop(_, _, _, _, _, _)
\* for _, field := range c.Fields
fieldLoop(c, zc, i, ctx, lat, err) ==
    IF i > Len(c.Fields.elems) THEN zc
    ELSE fieldLoop(c, fieldCase(c, zc, c.Fields.elems[i], ctx, lat, err),
                   i + 1, ctx, lat, err)

\* a slip: the fields attached in reverse order
RECURSIVE fieldLoop_reversed(_, _, _, _, _, _)
fieldLoop_reversed(c, zc, i, ctx, lat, err) ==
    IF i > Len(c.Fields.elems) THEN zc
    ELSE fieldCase(c, fieldLoop_reversed(c, zc, i + 1, ctx, lat, err),
                   c.Fields.elems[i], ctx, lat, err)

logger_reversed(c, ctx, lat, err) == fieldLoop_reversed(c, loggerCtx(c, ctx), 1, ctx, lat, err)

logger(c, ctx, lat, err) == fieldLoop(c, loggerCtx(c, ctx), 1, ctx, lat, err)

\* the calls of c.GetResBody one Config.logger makes: one per resBody field that
\* is not skipped, none when no override is configured
getResBodyInvocations(c, ctx) ==
    IF c.GetResBody # Nil /\ (c.SkipResBody = Nil \/ ~ctx.skipResBodyResult)
    THEN Cardinality({i \in 1..Len(c.Fields.elems) : c.Fields.elems[i] = FieldResBody})
    ELSE 0

-----------------------------------------------------------------------------
(* The request pipeline: the handler New(config...) returns.  It runs the    *)
(* skip decision, the downstream handler, Config.logger and the emission.   *)

\* the request is skipped: the skip predicate holds, or the path is a skip URI
skipDecision(c, ctx) ==
    \/ c.Next # Nil /\ ctx.nextResult
    \/ \E i \in 1..Len(c.SkipURIs.elems) : c.SkipURIs.elems[i] = ctx.Path

\* the severity tier of a response status code: 0, 1 or 2
tierIndex(status) ==
    IF status >= 500 THEN 0
    ELSE IF status >= 400 THEN 1
    ELSE 2

\* the index (from 0) used in a Messages / Levels list of length n for a tier:
\* the tier itself, or the last entry when the list is shorter; -1 when n = 0
listIndex(n, tier) == IF tier >= n THEN n - 1 ELSE tier

\* indexing a slice out of range panics
indexPanics(list, idx) == idx < 0 \/ idx >= Len(list.elems)

\* the record written to the sink: WithLevel(level).Msg(message) on the logger
\* Config.logger built
logEvent(c, ctx, l) ==
    LET tier == tierIndex(ctx.StatusCode)
        li == listIndex(Len(c.Levels.elems), tier)
        mi == listIndex(Len(c.Messages.elems), tier)
    IN  [level |-> c.Levels.elems[li + 1],
         message |-> c.Messages.elems[mi + 1],
         logger |-> l.name,
         fields |-> l.context]

emissionPanics(c, ctx) ==
    LET tier == tierIndex(ctx.StatusCode)
    IN  \/ indexPanics(c.Levels, listIndex(Len(c.Levels.elems), tier))
        \/ indexPanics(c.Messages, listIndex(Len(c.Messages.elems), tier))

-----------------------------------------------------------------------------
(* Inputs *)

UserMessages == <<"srv", "cli", "ok", "fourth", "fifth">>

UserLevels == <<FatalLevel, ErrorLevel, DebugLevel, PanicLevel, InfoLevel>>

\* the Messages / Levels lists a caller supplies: unset, empty, or 1..MaxListLen entries
ListsOf(pool) == {NilSlice} \cup {Slice(SubSeq(pool, 1, n)) : n \in 0..MaxListLen}

FuncOption(name) == {Nil, name}

StatusCodes == {200, 302, 399, 400, 404, 499, 500, 503}

Errors == {Nil, "boom"}

Paths == {"/", "/health"}

FieldTags == KnownFields \cup {UnknownField}

RECURSIVE SeqsUpTo(_, _)
SeqsUpTo(S, n) ==
    IF n = 0 THEN {<<>>}
    ELSE LET shorter == SeqsUpTo(S, n - 1)
         IN  shorter \cup {Append(s, x) : s \in {t \in shorter : Len(t) = n - 1}, x \in S}

\* what callers pass to configDefault: every option set or unset
ResolveArgs ==
    {<<>>} \cup
    {<<[Next |-> nx, SkipBody |-> sb, SkipResBody |-> srb, GetResBody |-> grb,
        SkipURIs |-> su, Logger |-> lg, GetLogger |-> gl,
        Fields |-> fl, Messages |-> ms, Levels |-> lv]>> :
        nx \in FuncOption("next"), sb \in FuncOption("skipBody"),
        srb \in FuncOption("skipResBody"), grb \in FuncOption("getResBody"),
        su \in {NilSlice, Slice(<<>>), Slice(<<"/health">>)},
        lg \in {Nil, "userLogger"}, gl \in FuncOption("getLogger"),
        fl \in {NilSlice, Slice(<<>>), Slice(<<FieldStatus, FieldBody>>)},
        ms \in ListsOf(UserMessages), lv \in ListsOf(UserLevels)}

\* the configurations the pipeline is run with
PipelineArgs ==
    {<<>>} \cup
    {<<[ZeroConfig EXCEPT !.Next = nx, !.SkipURIs = su, !.Logger = lg, !.GetLogger = gl,
                          !.Fields = fl, !.Messages = ms, !.Levels = lv]>> :
        nx \in FuncOption("next"),
        su \in {NilSlice, Slice(<<"/health">>)},
        lg \in {Nil, "userLogger"}, gl \in FuncOption("getLogger"),
        fl \in {NilSlice, Slice(<<FieldError, FieldStatus>>), Slice(<<UnknownField>>)},
        ms \in ListsOf(UserMessages), lv \in ListsOf(UserLevels)}

\* the configurations Config.logger is run with
LoggerArgs ==
    {<<>>} \cup
    {<<[ZeroConfig EXCEPT !.SkipBody = sb, !.SkipResBody = srb, !.GetResBody = grb,
                          !.Fields = Slice(fl)]>> :
        sb \in FuncOption("skipBody"), srb \in FuncOption("skipResBody"),
        grb \in FuncOption("getResBody"), fl \in SeqsUpTo(FieldTags, MaxFields)}

IdleCtx == MkCtx("/", 200, <<>>, FALSE, FALSE, FALSE)

-----------------------------------------------------------------------------
(* Actions *)

InitWith(args) ==
    /\ ConfigDefault = ConfigDefaultInit
    /\ loggers = LoggersInit
    /\ config \in args
    /\ cfg = ZeroConfig
    /\ fc = IdleCtx
    /\ pc = "new"
    /\ skipped = FALSE
    /\ chainErr = Nil
    /\ latency = 0
    /\ handlerCalls = 0
    /\ getLoggerCalls = 0
    /\ getResBodyCalls = 0
    /\ emitted = <<>>
    /\ ret = "none"
    /\ zl = [name |-> Nil, context |-> <<>>]

\* New(config...): cfg := configDefault(config...)
New ==
    /\ pc = "new"
    /\ cfg' = configDefault(config)
    /\ pc' = "idle"
    /\ UNCHANGED <<ConfigDefault, loggers, config, fc, skipped, chainErr, latency,
                   handlerCalls, getLoggerCalls, getResBodyCalls, emitted, ret, zl>>

\* a request enters the middleware: the skip decision
Enter ==
    /\ pc = "idle"
    /\ \E path \in Paths, nextR \in BOOLEAN :
        /\ (Len(config) < 1 \/ config[1].Next = Nil) => ~nextR
        /\ fc' = MkCtx(path, 200, <<>>, nextR, FALSE, FALSE)
    /\ skipped' = skipDecision(cfg, fc')
    /\ pc' = "handler"
    /\ UNCHANGED <<ConfigDefault, loggers, config, cfg, chainErr, latency,
                   handlerCalls, getLoggerCalls, getResBodyCalls, emitted, ret, zl>>

\* c.Next(): the downstream handler runs, sets the response and returns its error
HandlerRun ==
    /\ pc = "handler"
    /\ \E status \in StatusCodes, err \in Errors :
        /\ fc' = [fc EXCEPT !.StatusCode = status, !.ResponseBody = <<111, 107>>]
        /\ chainErr' = err
    /\ latency' = IF skipped THEN 0 ELSE 7
    /\ handlerCalls' = handlerCalls + 1
    /\ pc' = IF skipped THEN "return" ELSE "log"
    /\ UNCHANGED <<ConfigDefault, loggers, config, cfg, skipped,
                   getLoggerCalls, getResBodyCalls, emitted, ret, zl>>

\* the record is built by Config.logger and written to the sink once
Log ==
    /\ pc = "log"
    /\ zl' = logger(cfg, fc, latency, chainErr)
    /\ getLoggerCalls' = getLoggerCalls + loggerCtxCalls(cfg)
    /\ getResBodyCalls' = getResBodyCalls + getResBodyInvocations(cfg, fc)
    /\ IF emissionPanics(cfg, fc)
       THEN /\ pc' = "panicked"
            /\ emitted' = emitted
       ELSE /\ pc' = "return"
            /\ emitted' = Append(emitted, logEvent(cfg, fc, zl'))
    /\ UNCHANGED <<ConfigDefault, loggers, config, cfg, fc, skipped, chainErr, latency,
                   handlerCalls, ret>>

\* the middleware returns the handler's result
Return ==
    /\ pc = "return"
    /\ ret' = chainErr
    /\ pc' = "done"
    /\ UNCHANGED <<ConfigDefault, loggers, config, cfg, fc, skipped, chainErr, latency,
                   handlerCalls, getLoggerCalls, getResBodyCalls, emitted, zl>>

\* the host hands the next request to the same handler
NextRequest ==
    /\ pc = "done"
    /\ pc' = "idle"
    /\ fc' = IdleCtx
    /\ skipped' = FALSE
    /\ chainErr' = Nil
    /\ latency' = 0
    /\ handlerCalls' = 0
    /\ getLoggerCalls' = 0
    /\ getResBodyCalls' = 0
    /\ emitted' = <<>>
    /\ ret' = "none"
    /\ zl' = [name |-> Nil, context |-> <<>>]
    /\ UNCHANGED <<ConfigDefault, loggers, config, cfg>>

\* cfg.logger(c, latency, err) on its own, for any context and error
CallLogger ==
    /\ pc = "idle"
    /\ \E skipBodyR \in BOOLEAN, skipResBodyR \in BOOLEAN, err \in Errors :
        /\ cfg.SkipBody = Nil => ~skipBodyR
        /\ cfg.SkipResBody = Nil => ~skipResBodyR
        /\ fc' = MkCtx("/", 200, <<111, 107>>, FALSE, skipBodyR, skipResBodyR)
        /\ chainErr' = err
    /\ latency' = 7
    /\ zl' = logger(cfg, fc', latency', chainErr')
    /\ getLoggerCalls' = getLoggerCalls + loggerCtxCalls(cfg)
    /\ getResBodyCalls' = getResBodyCalls + getResBodyInvocations(cfg, fc')
    /\ pc' = "built"
    /\ UNCHANGED <<ConfigDefault, loggers, config, cfg, skipped, handlerCalls, emitted, ret>>

-----------------------------------------------------------------------------
(* Specifications *)

\* the request pipeline
Init == InitWith(PipelineArgs)

Next == New \/ Enter \/ HandlerRun \/ Log \/ Return \/ NextRequest

Spec == Init /\ [][Next]_vars

\* configuration resolution alone
InitResolve == InitWith(ResolveArgs)

NextResolve == New

SpecResolve == InitResolve /\ [][NextResolve]_vars

\* Config.logger alone
InitLogger == InitWith(LoggerArgs)

NextLogger == New \/ CallLogger

SpecLogger == InitLogger /\ [][NextLogger]_vars

-----------------------------------------------------------------------------
(* Helpers of the properties *)

\* the Config the caller passed, ZeroConfig when New() was called without one
UserConfig == IF Len(config) < 1 THEN ZeroConfig ELSE config[1]

\* the list the caller configured: ConfigDefault's when the caller left it unset
ConfiguredList(userList, defaultList) ==
    IF Len(config) < 1 \/ userList.isNil THEN defaultList.elems ELSE userList.elems

ConfiguredMessages == ConfiguredList(UserConfig.Messages, ConfigDefaultInit.Messages)

ConfiguredLevels == ConfiguredList(UserConfig.Levels, ConfigDefaultInit.Levels)

ConfiguredFields == ConfiguredList(UserConfig.Fields, ConfigDefaultInit.Fields)

\* the entry of a non-empty list for a status code, as the fallback rule states it
ExpectedEntry(list, status) ==
    LET t == IF status >= 500 THEN 0 ELSE IF status >= 400 /\ status < 500 THEN 1 ELSE 2
    IN  IF Len(list) > t THEN list[t + 1] ELSE list[Len(list)]

\* the logger object a request's record is built on
BaseLogger ==
    IF UserConfig.GetLogger # Nil THEN fc.getLoggerResult
    ELSE IF UserConfig.Logger # Nil THEN LoggersInit[UserConfig.Logger]
    ELSE LoggersInit["logger"]

\* the pairs Config.logger attached, after those of the logger it started from
Added(l) == SubSeq(l.context, Len(BaseLogger.context) + 1, Len(l.context))

KeysOf(pairs) == [i \in 1..Len(pairs) |-> pairs[i][1]]

HasKey(pairs, key) == \E i \in 1..Len(pairs) : pairs[i][1] = key

InSeq(x, seq) == \E i \in 1..Len(seq) : seq[i] = x

\* the caller's skip predicate holds for the request, or its path is a skip URI
UserSkips ==
    \/ UserConfig.Next # Nil /\ fc.nextResult
    \/ InSeq(fc.Path, UserConfig.SkipURIs.elems)

AfterEnter == pc \in {"handler", "log", "return", "done", "panicked"}

AfterHandler == pc \in {"log", "return", "done", "panicked"}

AfterLog == pc \in {"return", "done", "panicked"}

-----------------------------------------------------------------------------
(* Properties *)

\* C1: every emitted record carries, for the response status code, the entry of
\* the configured Messages list and of the configured Levels list (each of
\* length >= 1, the two lengths independent) of tier 0 when status >= 500, tier 1
\* when 400 <= status < 500, tier 2 otherwise, and the last entry of a list too
\* short for the tier; a list of length 1 gives its entry for every status, and
\* the default config gives (ErrorLevel, "Server error") for 503, (WarnLevel,
\* "Client error") for 404 and (InfoLevel, "Success") for 200.
C1_SeverityWithFallback ==
    \A k \in 1..Len(emitted) :
        /\ Len(ConfiguredMessages) >= 1
        /\ Len(ConfiguredLevels) >= 1
        /\ emitted[k].message = ExpectedEntry(ConfiguredMessages, fc.StatusCode)
        /\ emitted[k].level = ExpectedEntry(ConfiguredLevels, fc.StatusCode)
        /\ Len(ConfiguredMessages) = 1 => emitted[k].message = ConfiguredMessages[1]
        /\ Len(ConfiguredLevels) = 1 => emitted[k].level = ConfiguredLevels[1]
        /\ Len(config) < 1 /\ fc.StatusCode = 503 =>
              emitted[k].level = ErrorLevel /\ emitted[k].message = "Server error"
        /\ Len(config) < 1 /\ fc.StatusCode = 404 =>
              emitted[k].level = WarnLevel /\ emitted[k].message = "Client error"
        /\ Len(config) < 1 /\ fc.StatusCode = 200 =>
              emitted[k].level = InfoLevel /\ emitted[k].message = "Success"

\* a 404 logged with a one-entry Messages list (fallback) and a two-entry Levels list
C1_Witness ==
    /\ Len(emitted) = 1
    /\ fc.StatusCode = 404
    /\ Len(config) = 1
    /\ ~config[1].Messages.isNil /\ Len(config[1].Messages.elems) = 1
    /\ ~config[1].Levels.isNil /\ Len(config[1].Levels.elems) = 2
    /\ emitted[1].message = "srv"
    /\ emitted[1].level = ErrorLevel

\* C2: when the caller's skip predicate returns true for the request, or the
\* request path is an entry of the skip-URI list, no record is emitted, the
\* downstream handler is invoked exactly once, and the middleware returns the
\* handler's result.
C2_SkipDecision ==
    AfterEnter /\ UserSkips =>
        /\ skipped
        /\ emitted = <<>>
        /\ pc \notin {"log", "panicked"}
        /\ handlerCalls = (IF pc = "handler" THEN 0 ELSE 1)
        /\ pc = "done" => ret = chainErr

\* a request skipped by its path has run the handler and returned its error
C2_Witness ==
    /\ pc = "done"
    /\ UserSkips
    /\ fc.Path = "/health"
    /\ UserConfig.Next = Nil
    /\ handlerCalls = 1
    /\ emitted = <<>>
    /\ chainErr = "boom"
    /\ ret = "boom"

\* C3: for every request that is not skipped, nothing is written to the sink
\* before the downstream handler has returned, and once the request has been
\* logged exactly one record has been written, whatever the status code, the
\* handler's error and the configuration.
C3_ExactlyOneEmission ==
    /\ pc \in {"idle", "handler", "log"} => emitted = <<>>
    /\ AfterLog /\ ~skipped => Len(emitted) = 1

AttachedTag(tag) ==
    /\ tag \in KnownFields
    /\ tag = FieldError => chainErr # Nil
    /\ tag = FieldBody => (UserConfig.SkipBody = Nil \/ ~fc.skipBodyResult)
    /\ tag = FieldResBody => (UserConfig.SkipResBody = Nil \/ ~fc.skipResBodyResult)

\* C5: for a field list without the request-headers tag, the keys of the record
\* Config.logger builds are the configured list in its order, without the
\* unrecognized tags and without the conditionally omitted fields (error when
\* err is nil, body / resBody when their skip predicate is true).
C5_FieldOrder ==
    pc = "built" /\ ~InSeq(FieldReqHeaders, ConfiguredFields) =>
        KeysOf(Added(zl)) = SelectSeq(ConfiguredFields, AttachedTag)

\* two different fields logged in the configured order
C5_Witness ==
    /\ pc = "built"
    /\ ConfiguredFields = <<FieldURL, FieldStatus>>
    /\ KeysOf(Added(zl)) = <<FieldURL, FieldStatus>>

\* an unrecognized tag adds no key, the field after it is attached
C5_WitnessUnknown ==
    /\ pc = "built"
    /\ ConfiguredFields = <<UnknownField, FieldMethod>>
    /\ KeysOf(Added(zl)) = <<FieldMethod>>

\* the tags whose presence depends on nothing but the field list
PlainFields == KnownFields \ {FieldBody, FieldResBody, FieldError, FieldReqHeaders}

\* C7: with "body" (resp. "resBody") in the field list the record has the body
\* (resp. resBody) field exactly when SkipBody (resp. SkipResBody) is not
\* configured or returns false; every other field of the list is attached
\* whatever the predicates return.
C7_BodySkip ==
    pc = "built" =>
        /\ HasKey(Added(zl), FieldBody) <=>
              /\ InSeq(FieldBody, ConfiguredFields)
              /\ (UserConfig.SkipBody = Nil \/ ~fc.skipBodyResult)
        /\ HasKey(Added(zl), FieldResBody) <=>
              /\ InSeq(FieldResBody, ConfiguredFields)
              /\ (UserConfig.SkipResBody = Nil \/ ~fc.skipResBodyResult)
        /\ \A tag \in PlainFields :
              HasKey(Added(zl), tag) <=> InSeq(tag, ConfiguredFields)

\* the body skipped while bytesReceived is still attached
C7_Witness ==
    /\ pc = "built"
    /\ ConfiguredFields = <<FieldBody, FieldBytesReceived>>
    /\ UserConfig.SkipBody # Nil
    /\ fc.skipBodyResult
    /\ KeysOf(Added(zl)) = <<FieldBytesReceived>>

\* C8: a resBody field of the record holds the override's return value when
\* GetResBody is configured and the raw response body when it is not; the
\* override is not invoked when SkipResBody returns true (nor when "resBody" is
\* not in the field list).
C8_ResBodyOverride ==
    pc = "built" =>
        /\ \A i \in 1..Len(Added(zl)) :
              Added(zl)[i][1] = FieldResBody =>
                  Added(zl)[i][2] = (IF UserConfig.GetResBody # Nil
                                     THEN fc.getResBodyResult
                                     ELSE fc.ResponseBody)
        /\ UserConfig.SkipResBody # Nil /\ fc.skipResBodyResult => getResBodyCalls = 0
        /\ getResBodyCalls > 0 =>
              UserConfig.GetResBody # Nil /\ HasKey(Added(zl), FieldResBody)

\* the override's value logged in place of the raw response body
C8_Witness ==
    /\ pc = "built"
    /\ UserConfig.GetResBody # Nil
    /\ ConfiguredFields = <<FieldResBody>>
    /\ fc.getResBodyResult # fc.ResponseBody
    /\ Added(zl) = << <<FieldResBody, fc.getResBodyResult>> >>
    /\ getResBodyCalls = 1

\* C9: for a request that is not skipped the logger factory, when configured,
\* is called exactly once and the record is built on and emitted through the
\* logger it returned for this request, a static Logger being configured or
\* not; without a factory the static Logger is used; the factory is not called
\* for a skipped request; and the logger objects are never modified.
C9_LoggerAcquisition ==
    /\ loggers = LoggersInit
    /\ ~AfterLog \/ skipped => getLoggerCalls = 0
    /\ AfterLog /\ ~skipped =>
          getLoggerCalls = (IF UserConfig.GetLogger # Nil THEN 1 ELSE 0)
    /\ \A k \in 1..Len(emitted) :
          /\ emitted[k].logger = BaseLogger.name
          /\ SubSeq(emitted[k].fields, 1, Len(BaseLogger.context)) = BaseLogger.context
          /\ UserConfig.GetLogger # Nil =>
                emitted[k].fields[1] = <<"trace", fc.Path>>

\* a record emitted through the factory's logger although a static one is set
C9_Witness ==
    /\ pc = "done"
    /\ UserConfig.GetLogger # Nil
    /\ UserConfig.Logger = "userLogger"
    /\ getLoggerCalls = 1
    /\ Len(emitted) = 1
    /\ emitted[1].logger = "perRequest"
    /\ fc.Path = "/health"

\* C6: whatever Config the caller supplies, a nil or an empty Messages or Levels
\* list included, the resolved Config has at least one message and one level.
C6_ListsNeverEmpty ==
    pc # "new" => Len(cfg.Messages.elems) >= 1 /\ Len(cfg.Levels.elems) >= 1

\* C10: configDefault() returns ConfigDefault; configDefault(c) returns c with
\* Logger, Fields, Messages and Levels replaced by ConfigDefault's exactly when
\* nil and every other option unchanged; the result has no nil Logger, Fields,
\* Messages or Levels; ConfigDefault and the caller's Config are not modified.
C10_Resolved ==
    pc # "new" =>
        /\ Len(config) < 1 => cfg = ConfigDefaultInit
        /\ Len(config) >= 1 =>
              /\ cfg.Logger = (IF config[1].Logger = Nil THEN ConfigDefaultInit.Logger
                               ELSE config[1].Logger)
              /\ cfg.Fields = (IF config[1].Fields.isNil THEN ConfigDefaultInit.Fields
                               ELSE config[1].Fields)
              /\ cfg.Messages = (IF config[1].Messages.isNil THEN ConfigDefaultInit.Messages
                                 ELSE config[1].Messages)
              /\ cfg.Levels = (IF config[1].Levels.isNil THEN ConfigDefaultInit.Levels
                               ELSE config[1].Levels)
              /\ cfg.Next = config[1].Next
              /\ cfg.SkipBody = config[1].SkipBody
              /\ cfg.SkipResBody = config[1].SkipResBody
              /\ cfg.GetResBody = config[1].GetResBody
              /\ cfg.SkipURIs = config[1].SkipURIs
              /\ cfg.GetLogger = config[1].GetLogger
        /\ cfg.Logger # Nil
        /\ ~cfg.Fields.isNil /\ ~cfg.Messages.isNil /\ ~cfg.Levels.isNil
        /\ ConfigDefault = ConfigDefaultInit

\* C10, with its frame: the resolved Config is as C10_Resolved states in every
\* state, and no step modifies the caller's Config or ConfigDefault.
C10_ResolutionIsPure ==
    /\ []C10_Resolved
    /\ [][config' = config /\ ConfigDefault' = ConfigDefault]_vars

\* a Config with an empty, non-nil Fields list and unset Messages resolved
C10_Witness ==
    /\ pc = "idle"
    /\ Len(config) = 1
    /\ ~config[1].Fields.isNil /\ config[1].Fields.elems = <<>>
    /\ cfg.Fields.elems = <<>>
    /\ config[1].Messages.isNil
    /\ cfg.Messages = ConfigDefaultInit.Messages
    /\ config[1].Levels.elems = <<FatalLevel>>
    /\ cfg.Levels.elems = <<FatalLevel>>
    /\ config[1].Logger = Nil
    /\ cfg.Logger = "logger"

====
